---- MODULE Spec2Model ----
(***************************************************************************)
(* Model of webapp.py, the Corn Disease Detector page: the checkpoint      *)
(* loader, the image preprocessing, the top-k inference wrapper and the    *)
(* script body that the page framework executes top to bottom on every     *)
(* user interaction.                                                       *)
(*                                                                         *)
(* Abstractions.  An image is its PIL colour mode, its size and one        *)
(* 8-bit level shared by all its pixels and bands (resizing and cropping   *)
(* a constant image yields a constant image, whatever the interpolation).  *)
(* Real numbers are exact rationals <<numerator, denominator>> in lowest   *)
(* terms; float rounding is not modelled.  The network is a frozen         *)
(* backbone that reduces the tensor to one non-negative feature, a         *)
(* batch-normalisation layer with its running buffers, and the             *)
(* classification head taken from the checkpoint (optional dropout, one    *)
(* linear layer, log-probability outputs).  exp is modelled by a strictly  *)
(* increasing power of two over the bounded log-probability range.  The    *)
(* optimizer returned by load_model_nocuda is never used and is left out.  *)
(***************************************************************************)
EXTENDS Integers, Sequences, FiniteSets, TLC

VARIABLES
    checkpoint,   \* the file 'resnet50-transfer-4.pth' on disk
    pc,           \* position of the script body
    img_data,     \* st.file_uploader result: None or the uploaded file
    uploaded_img, \* Image.open(img_data)
    model,        \* the module-level name `model` of the current script run
    loaded,       \* the model exactly as load_model_nocuda returned it
    core_input,   \* the image handed to predict_nocuda / process_image
    result,       \* what predict_nocuda returned to the script body
    error,        \* the exception that ended the current script run
    runs,         \* number of script runs started in this process
    loads,        \* number of executions of load_model_nocuda in this process
    history       \* results of successive predict_nocuda calls on one model

vars == <<checkpoint, pc, img_data, uploaded_img, model, loaded, core_input,
          result, error, runs, loads, history>>

None == [none |-> TRUE]

----------------------------------------------------------------------------
(* Bounds *)

MaxClasses == 3      \* largest number of outputs of the classification head
MaxRuns == 2         \* script runs per process
MaxCalls == 3        \* repeated predict_nocuda calls on one model

----------------------------------------------------------------------------
(* Rationals *)

RECURSIVE GCD(_, _)
GCD(a, b) == IF b = 0 THEN a ELSE GCD(b, a % b)

\* n/d in lowest terms, d > 0
Rat(n, d) == LET g == GCD(IF n < 0 THEN -n ELSE n, d) IN <<n \div g, d \div g>>
RatSub(a, b) == Rat(a[1] * b[2] - b[1] * a[2], a[2] * b[2])
RatDiv(a, b) == IF b[1] > 0 THEN Rat(a[1] * b[2], a[2] * b[1])
                ELSE Rat(-(a[1] * b[2]), -(a[2] * b[1]))
RatPos(a) == a[1] > 0

----------------------------------------------------------------------------
(* Normalisation constants, in units of 1/10000 *)

mean_datasets == <<Rat(4375, 10000), Rat(5055, 10000), Rat(3819, 10000)>>
std_datasets == <<Rat(2156, 10000), Rat(2261, 10000), Rat(2154, 10000)>>

----------------------------------------------------------------------------
(* Uploaded files and decoded images *)

\* Colour modes a PNG or JPEG file can be stored in: grayscale, palette,
\* true colour, true colour with alpha.
Modes == {"L", "P", "RGB", "RGBA"}
Bands(mode) == CASE mode = "L" -> 1
                 [] mode = "P" -> 1
                 [] mode = "RGB" -> 3
                 [] mode = "RGBA" -> 4
Sizes == {<<256, 256>>, <<300, 100>>}
Levels == {0, 128, 255}

\* The files st.file_uploader(type=['png','jpg','jpeg']) lets through: the
\* filter is on the file name's extension, not on the colour mode.
Uploads == [mode : Modes, size : Sizes, level : Levels]

\* Image.open keeps the mode stored in the file; nothing converts it.
Image_open(file) == [mode |-> file.mode, size |-> file.size, level |-> file.level]

----------------------------------------------------------------------------
(* process_image *)

\* Variant: the margins are not halved
CropBox_unhalved(width, height, new_width, new_height) ==
    [left |-> width - new_width,
     top |-> height - new_height,
     right |-> width + new_width,
     bottom |-> height + new_height]

CropBox(width, height, new_width, new_height) ==
    [left |-> (width - new_width) \div 2,
     top |-> (height - new_height) \div 2,
     right |-> (width + new_width) \div 2,
     bottom |-> (height + new_height) \div 2]

\* np.array(img): (height, width) for one band, (height, width, bands) otherwise
ArrayShape(img) ==
    IF Bands(img.mode) = 1 THEN <<img.size[2], img.size[1]>>
    ELSE <<img.size[2], img.size[1], Bands(img.mode)>>

\* Variant: 8-bit values scaled by 255
Scale_by_255(v) == Rat(v, 255)

Scale(v) == Rat(v, 256)

Standardize(x, c) == RatDiv(RatSub(x, mean_datasets[c]), std_datasets[c])

process_image(image) ==
    LET img1 == [image EXCEPT !.size = <<256, 256>>]
        box == CropBox(256, 256, 224, 224)
        img2 == [img1 EXCEPT !.size = <<box.right - box.left, box.bottom - box.top>>]
        shp == ArrayShape(img2)
    IN  IF Len(shp) # 3
        THEN [ok |-> FALSE, error |-> "ValueError: axes don't match array"]
        ELSE LET tshape == <<shp[3], shp[1], shp[2]>>
             IN  IF tshape[1] \notin {1, Len(mean_datasets)}
                 THEN [ok |-> FALSE, error |-> "ValueError: operands could not be broadcast"]
                 ELSE [ok |-> TRUE,
                       shape |-> <<Len(mean_datasets), tshape[2], tshape[3]>>,
                       data |-> [c \in 1..Len(mean_datasets) |->
                                   Standardize(Scale(image.level), c)]]

----------------------------------------------------------------------------
(* The checkpoint file *)

ClassNames == <<"Blight", "Common_Rust", "Healthy", "Gray_Leaf_Spot", "Other">>
HeadWeights == {-2, -1, 0}
NumClasses == 2..MaxClasses

ClassToIdx(n) == [c \in {ClassNames[i + 1] : i \in 0..(n - 1)} |->
                    CHOOSE i \in 0..(n - 1) : ClassNames[i + 1] = c]

\* What a checkpoint file may hold under 'idx_to_class': the inverse of its
\* class_to_idx, a rotation of it, or a mapping with the last index missing.
IdxToClassChoices(n) ==
    { [i \in 0..(n - 1) |-> ClassNames[i + 1]],
      [i \in 0..(n - 1) |-> ClassNames[((i + 1) % n) + 1]],
      [i \in 0..(n - 2) |-> ClassNames[i + 1]] }

CheckpointContents(n, m) ==
    [kind : {"pickle"},
     fc : [out_features : {n}, dropout : BOOLEAN, training : BOOLEAN],
     state_dict : [fc_weight : [0..(m - 1) -> HeadWeights],
                   running_mean : {0}, num_batches_tracked : {0}],
     class_to_idx : {ClassToIdx(n)},
     idx_to_class : IdxToClassChoices(n),
     epochs : {4}]

\* Well-formed pickles whose state_dict fits the head they carry
InverseOf(class_to_idx) ==
    [i \in {class_to_idx[c] : c \in DOMAIN class_to_idx} |->
        CHOOSE c \in DOMAIN class_to_idx : class_to_idx[c] = i]

\* Well-formed pickles whose state_dict fits the head they carry.  A head
\* without dropout is listed once (its training flag changes nothing); the
\* files whose idx_to_class is not the inverse of class_to_idx are listed
\* with the plain head only.
FittingCheckpoints ==
    { c \in UNION { CheckpointContents(n, n) : n \in NumClasses } :
        /\ c.fc.dropout \/ ~c.fc.training
        /\ c.idx_to_class = InverseOf(c.class_to_idx) \/ ~c.fc.dropout }

\* Well-formed pickles whose state_dict is for a head of another width
MismatchedCheckpoints ==
    { c \in UNION { CheckpointContents(n, n - 1) : n \in NumClasses } :
        /\ ~c.fc.dropout /\ ~c.fc.training
        /\ \A i \in DOMAIN c.state_dict.fc_weight : c.state_dict.fc_weight[i] = 0
        /\ c.idx_to_class = [i \in 0..(c.fc.out_features - 1) |-> ClassNames[i + 1]] }

Checkpoints == {[kind |-> "missing"], [kind |-> "corrupt"]}
                 \cup MismatchedCheckpoints \cup FittingCheckpoints

----------------------------------------------------------------------------
(* load_model_nocuda *)

\* models.resnet50(pretrained=True): a freshly constructed module is in
\* training mode; its head is the ImageNet head until line 26 replaces it.
resnet50 ==
    [training |-> TRUE,
     fc |-> [out_features |-> 1000, dropout |-> FALSE, training |-> TRUE,
             weight |-> <<>>],
     bn |-> [running_mean |-> 0, num_batches_tracked |-> 0],
     class_to_idx |-> <<>>,
     idx_to_class |-> <<>>,
     epochs |-> 0]

\* Variant: a failed load falls back to the pretrained network
load_model_nocuda_fallback(file) ==
    IF file.kind # "pickle"
       \/ DOMAIN file.state_dict.fc_weight # 0..(file.fc.out_features - 1)
    THEN [ok |-> TRUE, model |-> resnet50]
    ELSE [ok |-> TRUE,
          model |-> [resnet50 EXCEPT
              !.fc = [out_features |-> file.fc.out_features,
                      dropout |-> file.fc.dropout,
                      training |-> file.fc.training,
                      weight |-> file.state_dict.fc_weight],
              !.bn = [running_mean |-> file.state_dict.running_mean,
                      num_batches_tracked |-> file.state_dict.num_batches_tracked],
              !.class_to_idx = file.class_to_idx,
              !.idx_to_class = file.idx_to_class,
              !.epochs = file.epochs]]

\* Variant: the index-to-class mapping is rebuilt in index order of the
\* sorted class names instead of being taken from the file
load_model_nocuda_reindexed(file) ==
    IF file.kind = "missing"
    THEN [ok |-> FALSE, error |-> "FileNotFoundError"]
    ELSE IF file.kind = "corrupt"
    THEN [ok |-> FALSE, error |-> "UnpicklingError"]
    ELSE IF DOMAIN file.state_dict.fc_weight # 0..(file.fc.out_features - 1)
    THEN [ok |-> FALSE, error |-> "RuntimeError: size mismatch for fc"]
    ELSE [ok |-> TRUE,
          model |-> [resnet50 EXCEPT
              !.fc = [out_features |-> file.fc.out_features,
                      dropout |-> file.fc.dropout,
                      training |-> file.fc.training,
                      weight |-> file.state_dict.fc_weight],
              !.bn = [running_mean |-> file.state_dict.running_mean,
                      num_batches_tracked |-> file.state_dict.num_batches_tracked],
              !.class_to_idx = file.class_to_idx,
              !.idx_to_class = [i \in 0..(file.fc.out_features - 1) |->
                                  ClassNames[file.fc.out_features - i]],
              !.epochs = file.epochs]]

load_model_nocuda(file) ==
    IF file.kind = "missing"
    THEN [ok |-> FALSE, error |-> "FileNotFoundError"]
    ELSE IF file.kind = "corrupt"
    THEN [ok |-> FALSE, error |-> "UnpicklingError"]
    ELSE LET m1 == [resnet50 EXCEPT !.fc = [out_features |-> file.fc.out_features,
                                           dropout |-> file.fc.dropout,
                                           training |-> file.fc.training,
                                           weight |-> <<>>]]
         IN  IF DOMAIN file.state_dict.fc_weight # 0..(m1.fc.out_features - 1)
             THEN [ok |-> FALSE, error |-> "RuntimeError: size mismatch for fc"]
             ELSE [ok |-> TRUE,
                   model |-> [m1 EXCEPT
                       !.fc.weight = file.state_dict.fc_weight,
                       !.bn = [running_mean |-> file.state_dict.running_mean,
                               num_batches_tracked |->
                                   file.state_dict.num_batches_tracked],
                       !.class_to_idx = file.class_to_idx,
                       !.idx_to_class = file.idx_to_class,
                       !.epochs = file.epochs]]

----------------------------------------------------------------------------
(* The forward pass, model(img_tensor) *)

\* Frozen convolutional backbone: the number of channels with a positive
\* standardized value.
Backbone(tensor) ==
    Cardinality({c \in DOMAIN tensor.data : RatPos(tensor.data[c])})

\* Batch normalisation.  In training mode the layer normalises with the
\* statistics of the batch and folds them into its running buffers (momentum
\* 1/10, running_mean kept in tenths); in evaluation mode it normalises with
\* the running buffers and leaves them alone.  torch.no_grad() does not
\* change either behaviour.
BatchNorm(m, h) ==
    IF m.training
    THEN [y |-> h,
          bn |-> [running_mean |-> (9 * m.bn.running_mean + 10 * h) \div 10,
                  num_batches_tracked |-> m.bn.num_batches_tracked + 1]]
    ELSE [y |-> IF 10 * h > m.bn.running_mean
                THEN h - (m.bn.running_mean \div 10) ELSE 0,
          bn |-> m.bn]

\* The head: dropout (active only while the head is in training mode; kept
\* units are scaled by 2), then the linear layer, whose outputs the caller
\* reads as log-probabilities.
FcHead(fc, y, mask) ==
    LET yd == IF fc.dropout /\ fc.training THEN 2 * mask * y ELSE y
    IN  [c \in DOMAIN fc.weight |-> fc.weight[c] * yd]

Forward(m, tensor, mask) ==
    LET b == BatchNorm(m, Backbone(tensor))
    IN  [out |-> FcHead(m.fc, b.y, mask), model |-> [m EXCEPT !.bn = b.bn]]

\* Smallest log-probability the head can produce
MinLog == -(2 * 2 * Len(mean_datasets))

\* torch.exp on the bounded range, in units of 2^MinLog
Exp(x) == 2 ^ (x - MinLog)

----------------------------------------------------------------------------
(* predict_nocuda *)

RECURSIVE TopKFrom(_, _, _)
TopKFrom(ps, remaining, k) ==
    IF k = 0 THEN <<>>
    ELSE LET best == CHOOSE i \in remaining :
                        \A j \in remaining :
                            ps[i] > ps[j] \/ (ps[i] = ps[j] /\ i <= j)
         IN  <<best>> \o TopKFrom(ps, remaining \ {best}, k - 1)

\* Variant: the first k entries in index order, not sorted
topk_unsorted(ps, k) ==
    [values |-> [i \in 1..k |-> ps[i - 1]], indices |-> [i \in 1..k |-> i - 1]]

\* Tensor.topk(k, dim=1): the k largest values, largest first, and their
\* indices; equal values are taken lowest index first.
topk(ps, k) ==
    LET idx == TopKFrom(ps, DOMAIN ps, k)
    IN  [values |-> [i \in 1..k |-> ps[idx[i]]], indices |-> idx]

\* Variant: the labels are read in index order instead of through topclass
predict_nocuda_labels_by_position(image, m, k, mask) ==
    LET t == process_image(image)
    IN  IF ~t.ok THEN [ok |-> FALSE, error |-> t.error, model |-> m]
        ELSE
        LET f == Forward(m, t, mask)
            ps == [c \in DOMAIN f.out |-> Exp(f.out[c])]
        IN  IF k > Cardinality(DOMAIN ps)
               \/ \E i \in 1..k : (i - 1) \notin DOMAIN m.idx_to_class
            THEN [ok |-> FALSE, error |-> "RuntimeError", model |-> f.model]
            ELSE
            LET top == topk(ps, k)
            IN  [ok |-> TRUE,
                 top_p |-> top.values,
                 top_classes |-> [i \in 1..k |-> m.idx_to_class[i - 1]],
                 topclass |-> top.indices,
                 ps |-> ps,
                 model |-> f.model]

predict_nocuda(image, m, k, mask) ==
    LET t == process_image(image)
    IN  IF ~t.ok THEN [ok |-> FALSE, error |-> t.error, model |-> m]
        ELSE IF t.shape[1] * t.shape[2] * t.shape[3] # 3 * 224 * 224
        THEN [ok |-> FALSE, error |-> "RuntimeError: invalid view", model |-> m]
        ELSE
        LET f == Forward(m, t, mask)
            ps == [c \in DOMAIN f.out |-> Exp(f.out[c])]
        IN  IF k > Cardinality(DOMAIN ps)
            THEN [ok |-> FALSE, error |-> "RuntimeError: k out of range",
                  model |-> f.model]
            ELSE
            LET top == topk(ps, k)
            IN  IF \E i \in 1..k : top.indices[i] \notin DOMAIN m.idx_to_class
                THEN [ok |-> FALSE, error |-> "KeyError", model |-> f.model]
                ELSE [ok |-> TRUE,
                      top_p |-> top.values,
                      top_classes |-> [i \in 1..k |-> m.idx_to_class[top.indices[i]]],
                      topclass |-> top.indices,
                      ps |-> ps,
                      model |-> f.model]

----------------------------------------------------------------------------
(* The script body.  The page framework executes it from the first line   *)
(* to the last on every user interaction, each time in a fresh namespace. *)

Init ==
    /\ checkpoint \in Checkpoints
    /\ pc = "idle"
    /\ img_data = None
    /\ uploaded_img = None
    /\ model = None
    /\ loaded = None
    /\ core_input = None
    /\ result = None
    /\ error = None
    /\ runs = 0
    /\ loads = 0
    /\ history = <<>>

\* A user interaction starts a run: lines 91-126, ending with the uploader
Rerun ==
    /\ pc \in {"idle", "done", "crashed"}
    /\ runs < MaxRuns
    /\ \E f \in Uploads \cup {None} : img_data' = f
    /\ pc' = "load"
    /\ runs' = runs + 1
    /\ uploaded_img' = None
    /\ model' = None
    /\ loaded' = None
    /\ core_input' = None
    /\ result' = None
    /\ error' = None
    /\ UNCHANGED <<checkpoint, loads, history>>

\* line 128
LoadModel ==
    /\ pc = "load"
    /\ LET r == load_model_nocuda(checkpoint)
       IN  /\ loads' = loads + 1
           /\ IF r.ok
              THEN /\ model' = r.model
                   /\ loaded' = r.model
                   /\ pc' = "loaded"
                   /\ error' = error
              ELSE /\ error' = [exception |-> r.error]
                   /\ pc' = "crashed"
                   /\ UNCHANGED <<model, loaded>>
    /\ UNCHANGED <<checkpoint, img_data, uploaded_img, core_input, result, runs,
                   history>>

\* line 130, img_data is None: the run ends
NoImage ==
    /\ pc = "loaded"
    /\ img_data = None
    /\ pc' = "done"
    /\ UNCHANGED <<checkpoint, img_data, uploaded_img, model, loaded, core_input,
                   result, error, runs, loads, history>>

\* lines 130-132
OpenImage ==
    /\ pc = "loaded"
    /\ img_data # None
    /\ uploaded_img' = Image_open(img_data)
    /\ pc' = "opened"
    /\ UNCHANGED <<checkpoint, img_data, model, loaded, core_input, result, error,
                   runs, loads, history>>

\* line 135
Predict ==
    /\ pc = "opened"
    /\ \E mask \in {0, 1} :
         LET r == predict_nocuda(uploaded_img, model, 3, mask)
         IN  /\ core_input' = uploaded_img
             /\ model' = r.model
             /\ IF r.ok
                THEN /\ result' = [top_p |-> r.top_p, top_classes |-> r.top_classes,
                                   topclass |-> r.topclass, ps |-> r.ps]
                     /\ pc' = "predicted"
                     /\ error' = error
                ELSE /\ error' = [exception |-> r.error]
                     /\ pc' = "crashed"
                     /\ result' = result
    /\ UNCHANGED <<checkpoint, img_data, uploaded_img, loaded, runs, loads, history>>

\* lines 136-141
ShowTable ==
    /\ pc = "predicted"
    /\ pc' = "done"
    /\ UNCHANGED <<checkpoint, img_data, uploaded_img, model, loaded, core_input,
                   result, error, runs, loads, history>>

Next == Rerun \/ LoadModel \/ NoImage \/ OpenImage \/ Predict \/ ShowTable

Spec == Init /\ [][Next]_vars

----------------------------------------------------------------------------
(* Repeated inference on one loaded model: predict_nocuda called again and *)
(* again with the same image, nothing else touching the model.             *)

InitRepeat ==
    /\ checkpoint \in FittingCheckpoints
    /\ model = load_model_nocuda(checkpoint).model
    /\ loaded = model
    /\ img_data \in Uploads
    /\ uploaded_img = Image_open(img_data)
    /\ pc = "repeat"
    /\ core_input = None
    /\ result = None
    /\ error = None
    /\ runs = 1
    /\ loads = 1
    /\ history = <<>>

PredictAgain ==
    /\ pc = "repeat"
    /\ Len(history) < MaxCalls
    /\ \E mask \in {0, 1} :
         LET r == predict_nocuda(uploaded_img, model, 3, mask)
         IN  /\ core_input' = uploaded_img
             /\ model' = r.model
             /\ history' = Append(history,
                    IF r.ok THEN [ok |-> TRUE, top_p |-> r.top_p,
                                  top_classes |-> r.top_classes]
                    ELSE [ok |-> FALSE, error |-> r.error])
    /\ UNCHANGED <<checkpoint, pc, img_data, uploaded_img, loaded, result, error,
                   runs, loads>>

NextRepeat == PredictAgain

SpecRepeat == InitRepeat /\ [][NextRepeat]_vars

----------------------------------------------------------------------------
(* Properties *)

Returned == result # None

C2_RepeatedCallsIdentical ==
    \A i, j \in 1..Len(history) : history[i] = history[j]

\* C3: load_model_nocuda is executed at most once in the life of the process,
\* whatever the sequence of page runs.
C3_LoadedAtMostOnce == loads <= 1

\* C4: the model is never mutated after load: at every moment its state
\* (parameters, buffers, mappings) is the state load_model_nocuda returned.
C4_ModelNeverMutated == model # None => model = loaded

\* C5: for an RGB image of any size process_image yields a 3x224x224 tensor,
\* through the crop box (16, 16, 240, 240) of the 256x256 resized image.
C5_TensorShape ==
    (core_input # None /\ core_input.mode = "RGB") =>
        /\ CropBox(256, 256, 224, 224) =
               [left |-> 16, top |-> 16, right |-> 240, bottom |-> 240]
        /\ process_image(core_input).ok
        /\ process_image(core_input).shape = <<3, 224, 224>>

\* C5 witness: an RGB image that is neither square nor 256 pixels wide went
\* through predict_nocuda.
C5_Witness ==
    /\ core_input # None
    /\ core_input.mode = "RGB"
    /\ core_input.size = <<300, 100>>
    /\ Returned

\* C6: every image handed to predict_nocuda is an RGB pixel grid with exactly
\* 3 colour channels.
C6_CoreInputIsRGB ==
    core_input # None => (core_input.mode = "RGB" /\ Bands(core_input.mode) = 3)

IsInverse(class_to_idx, idx_to_class) ==
    /\ Cardinality(DOMAIN idx_to_class) = Cardinality(DOMAIN class_to_idx)
    /\ \A c \in DOMAIN class_to_idx :
          /\ class_to_idx[c] \in DOMAIN idx_to_class
          /\ idx_to_class[class_to_idx[c]] = c

\* C7 (as stated): after any accepted load the model's idx_to_class is the
\* exact inverse of its class_to_idx, with the same number of entries.
C7_AlwaysInverse ==
    model # None => IsInverse(model.class_to_idx, model.idx_to_class)

\* C7 (amended): after an accepted load the model's two mappings are the
\* checkpoint's two mappings, unchanged; so idx_to_class is the exact inverse
\* of class_to_idx, with the same N entries, whenever that holds of the two
\* mappings stored in the checkpoint.
C7_MappingsAsStored ==
    model # None =>
        /\ model.class_to_idx = checkpoint.class_to_idx
        /\ model.idx_to_class = checkpoint.idx_to_class
        /\ IsInverse(checkpoint.class_to_idx, checkpoint.idx_to_class)
              => IsInverse(model.class_to_idx, model.idx_to_class)

\* C7 witness: a checkpoint with 3 classes and inverse mappings was loaded.
C7_Witness ==
    /\ pc = "loaded"
    /\ model # None
    /\ Cardinality(DOMAIN model.class_to_idx) = 3
    /\ IsInverse(model.class_to_idx, model.idx_to_class)

Loadable(file) ==
    /\ file.kind = "pickle"
    /\ DOMAIN file.state_dict.fc_weight = 0..(file.fc.out_features - 1)

\* C8: with a missing, corrupt or structurally incompatible checkpoint no
\* model is ever bound, predict_nocuda is never reached and nothing is
\* predicted; a run executes the load once (no retry), and a model that
\* reaches predict_nocuda carries the checkpoint's head and weights.
C8_FailedLoadServesNothing ==
    /\ ~Loadable(checkpoint) =>
          /\ model = None
          /\ core_input = None
          /\ result = None
          /\ pc \in {"idle", "load", "crashed"}
    /\ loads <= runs
    /\ core_input # None =>
          /\ Loadable(checkpoint)
          /\ loaded # None
          /\ loaded.fc.out_features = checkpoint.fc.out_features
          /\ loaded.fc.weight = checkpoint.state_dict.fc_weight

\* C8 witness: a run with an uploaded image ended at the failed load.
C8_Witness ==
    /\ ~Loadable(checkpoint)
    /\ pc = "crashed"
    /\ error # None
    /\ img_data # None
    /\ loads = runs

\* C9: every element of channel c of the tensor is (v/256 - mean_c)/std_c for
\* the 8-bit value v, with mean = (0.4375, 0.5055, 0.3819) and
\* std = (0.2156, 0.2261, 0.2154); for mid-gray, (128/256 - mean_c)/std_c.
C9_Normalization ==
    (core_input # None /\ core_input.mode = "RGB") =>
        LET t == process_image(core_input)
            v == core_input.level
            M == <<4375, 5055, 3819>>
            S == <<2156, 2261, 2154>>
        IN  /\ DOMAIN t.data = 1..3
            /\ \A c \in 1..3 :
                  t.data[c] = Rat(v * 10000 - 256 * M[c], 256 * S[c])
            /\ v = 128 => \A c \in 1..3 : t.data[c] = Rat(5000 - M[c], S[c])

\* C9 witness: the 256x256 all-mid-gray RGB image was preprocessed.
C9_Witness ==
    /\ core_input = [mode |-> "RGB", size |-> <<256, 256>>, level |-> 128]
    /\ pc \in {"predicted", "crashed"}

\* C10: the two returned sequences are parallel: at every position i the
\* label is idx_to_class of the class index whose probability is top_p[i].
C10_ParallelSequences ==
    Returned =>
        \A i \in 1..3 :
            /\ result.topclass[i] \in DOMAIN result.ps
            /\ result.top_p[i] = result.ps[result.topclass[i]]
            /\ result.top_classes[i] = model.idx_to_class[result.topclass[i]]

\* C10 witness: a prediction whose ranking is not the index order, shown in
\* the table.
C10_Witness ==
    /\ pc = "done"
    /\ Returned
    /\ result.topclass[1] # 0
    /\ result.top_p[1] > result.top_p[3]

====
